---- MODULE Spec2Model ----
(***************************************************************************)
(* State-machine model of the two models of the repository:                *)
(*   nn/signed/SiGAT.py    (SiGAT: construction, forward, loss)            *)
(*   nn/directed/DIGRAC.py (DIMPA and DIGRAC forward passes)               *)
(***************************************************************************)
EXTENDS Integers, Sequences, FiniteSets, TLC

(***************************************************************************)
(* Bounds of the model.                                                    *)
(***************************************************************************)
NodeNum == 3
MaxEdges == 2
MaxDim == 2
NumNodes == 2
MaxGraphEdges == 2
MaxHop == 2
MaxHidden == 2
NumFeat == 2

(***************************************************************************)
(* Program constants.                                                      *)
(***************************************************************************)
DefaultInDim == 20
DefaultOutDim == 20

(***************************************************************************)
(* SiGAT: inputs.                                                          *)
(***************************************************************************)
Nodes == 0 .. (NodeNum - 1)
Signs == {-1, 0, 1}
\* a row [node_i, node_j, s] of edge_index_s
Rows == Nodes \X Nodes \X Signs
RowKey(r) == ((r[1] * NodeNum) + r[2]) * 3 + (r[3] + 1)
\* edge lists of at most MaxEdges rows of sign +1 or -1, without repetition,
\* listed in ascending order; self loops, two rows on one pair and two rows
\* on a pair and its reverse are among them
EdgeLists ==
  UNION { { e \in [1 .. n -> { r \in Rows : r[3] # 0 }] :
              \A a \in 1 .. n : \A b \in 1 .. n :
                 a < b => RowKey(e[a]) < RowKey(e[b]) } : n \in 0 .. MaxEdges }
\* every triangle on three distinct nodes a < b < c: one row between each two
\* of them, in either direction, of sign -1, 0 or +1
Orient(a, b, fwd, s) == IF fwd THEN << a, b, s >> ELSE << b, a, s >>
Sort3(x, y, z) ==
  LET lo == CHOOSE r \in {x, y, z} : \A q \in {x, y, z} : RowKey(r) <= RowKey(q)
      hi == CHOOSE r \in {x, y, z} : \A q \in {x, y, z} : RowKey(q) <= RowKey(r)
      mid == CHOOSE r \in {x, y, z} : r # lo /\ r # hi
  IN << lo, mid, hi >>
Triangles ==
  { Sort3(Orient(t[1], t[2], d[1], s[1]), Orient(t[2], t[3], d[2], s[2]),
          Orient(t[1], t[3], d[3], s[3])) :
      t \in { q \in Nodes \X Nodes \X Nodes : q[1] < q[2] /\ q[2] < q[3] },
      d \in BOOLEAN \X BOOLEAN \X BOOLEAN,
      s \in Signs \X Signs \X Signs }
Dims == 1 .. MaxDim
\* the constructor's arguments (edge_index_s, in_dim, out_dim): every edge list
\* with the default dimensions, and the lists of at most one row with every
\* pair of dimensions
SigatInputs ==
  { << e, DefaultInDim, DefaultOutDim >> : e \in EdgeLists \cup Triangles }
    \cup { << e, a, b >> : e \in { l \in EdgeLists : Len(l) <= 1 },
                           a \in Dims, b \in Dims }

VARIABLES
  pc,                \* position in SiGAT.__init__ / model life cycle
  edge_index_s,      \* constructor argument: sequence of rows
  in_dim, out_dim,   \* constructor arguments
  x_shape,           \* shape of the embedding table self.x
  pos_edge_index, neg_edge_index,
  idx,               \* position of the scan of edge_index_s_list
  pos_edgelist, pos_out_edgelist, pos_in_edgelist,
  neg_edgelist, neg_out_edgelist, neg_in_edgelist,
  adj1, adj2,        \* the copies the triad loops iterate over
  visited1, visited2,\* the (i, j) the triad loops have been through
  adj_additions1, adj_additions2,
  adj_lists, edge_lists, aggs,
  mlp_in,            \* in_features of the first Linear of mlp_layer
  last_call, last_result, fwd_pairs,
  \* DIMPA
  dpc,               \* position in DIMPA / DIGRAC
  hop,               \* self._hop
  w_s, w_t,          \* self._w_s, self._w_t: one weight per hop 0 .. hop
  trained,           \* an optimizer has updated the parameters
  x_s, x_t, edge_index, edge_weight,      \* arguments of DIMPA.forward
  feat_s, feat_t, curr_s, curr_t, h, feat,
  \* DIGRAC
  hidden, nclass, features,
  w_s0, w_s1, w_t0, w_t1, bias, W_prob,
  training,          \* module in training mode (dropout active)
  z, output, predictions_cluster, prob

sigat_vars ==
  << pc, edge_index_s, in_dim, out_dim, x_shape, pos_edge_index,
     neg_edge_index, idx, pos_edgelist, pos_out_edgelist, pos_in_edgelist,
     neg_edgelist, neg_out_edgelist, neg_in_edgelist, adj1, adj2, visited1,
     visited2, adj_additions1, adj_additions2, adj_lists, edge_lists, aggs,
     mlp_in, last_call, last_result, fwd_pairs >>

dimpa_vars ==
  << dpc, hop, w_s, w_t, trained, x_s, x_t, edge_index, edge_weight,
     feat_s, feat_t, curr_s, curr_t, h, feat >>

digrac_vars ==
  << hidden, nclass, features, w_s0, w_s1, w_t0, w_t1, bias, W_prob,
     training, z, output, predictions_cluster, prob >>

vars == << sigat_vars, dimpa_vars, digrac_vars >>

(***************************************************************************)
(* collections.defaultdict(set): a function from the keys present to sets. *)
(***************************************************************************)
EmptyDict == << >>
\* d[k] read through the defaultdict: the value, {} for a missing key
Get(d, k) == IF k \in DOMAIN d THEN d[k] ELSE {}
\* what a read d[k] does to the dict: a missing key is created empty
Touch(d, k) ==
  IF k \in DOMAIN d THEN d
  ELSE [x \in (DOMAIN d) \cup {k} |-> IF x = k THEN {} ELSE d[x]]
\* d[k].add(v)
AddTo(d, k, v) ==
  [x \in (DOMAIN d) \cup {k} |-> IF x = k THEN Get(d, k) \cup {v} ELSE d[x]]
\* the (key, member) pairs of a dict
PairsOf(d) == { p \in Nodes \X Nodes : p[1] \in DOMAIN d /\ p[2] \in d[p[1]] }

(***************************************************************************)
(* SiGAT.get_tri_features                                                  *)
(***************************************************************************)
\* the 16 counts returned for (u, v); r_edgelist is
\* (pos_in_edgelist, pos_out_edgelist, neg_in_edgelist, neg_out_edgelist)
get_tri_features_swapped(u, v, r_edgelist) ==
  LET p_in == r_edgelist[1]
      p_out == r_edgelist[2]
      n_in == r_edgelist[3]
      n_out == r_edgelist[4]
  IN << Cardinality(Get(p_out, u) \cap Get(p_in, v)),
        Cardinality(Get(p_out, u) \cap Get(n_in, v)),
        Cardinality(Get(n_out, u) \cap Get(p_in, v)),
        Cardinality(Get(n_out, u) \cap Get(n_in, v)),
        Cardinality(Get(p_out, u) \cap Get(p_out, v)),
        Cardinality(Get(p_out, u) \cap Get(n_out, v)),
        Cardinality(Get(n_out, u) \cap Get(p_out, v)),
        Cardinality(Get(n_out, u) \cap Get(n_out, v)),
        Cardinality(Get(p_in, u) \cap Get(p_out, v)),
        Cardinality(Get(n_in, u) \cap Get(p_out, v)),
        Cardinality(Get(p_in, u) \cap Get(n_out, v)),
        Cardinality(Get(n_in, u) \cap Get(n_out, v)),
        Cardinality(Get(p_in, u) \cap Get(p_in, v)),
        Cardinality(Get(p_in, u) \cap Get(n_in, v)),
        Cardinality(Get(n_in, u) \cap Get(p_in, v)),
        Cardinality(Get(n_in, u) \cap Get(n_in, v)) >>

get_tri_features(u, v, r_edgelist) ==
  LET p_in == r_edgelist[1]
      p_out == r_edgelist[2]
      n_in == r_edgelist[3]
      n_out == r_edgelist[4]
  IN << Cardinality(Get(p_out, u) \cap Get(p_in, v)),     \* d1_1
        Cardinality(Get(p_out, u) \cap Get(n_in, v)),     \* d1_2
        Cardinality(Get(n_out, u) \cap Get(p_in, v)),     \* d1_3
        Cardinality(Get(n_out, u) \cap Get(n_in, v)),     \* d1_4
        Cardinality(Get(p_out, u) \cap Get(p_out, v)),    \* d2_1
        Cardinality(Get(p_out, u) \cap Get(n_out, v)),    \* d2_2
        Cardinality(Get(n_out, u) \cap Get(p_out, v)),    \* d2_3
        Cardinality(Get(n_out, u) \cap Get(n_out, v)),    \* d2_4
        Cardinality(Get(p_in, u) \cap Get(p_out, v)),     \* d3_1
        Cardinality(Get(p_in, u) \cap Get(n_out, v)),     \* d3_2
        Cardinality(Get(n_in, u) \cap Get(p_out, v)),     \* d3_3
        Cardinality(Get(n_in, u) \cap Get(n_out, v)),     \* d3_4
        Cardinality(Get(p_in, u) \cap Get(p_in, v)),      \* d4_1
        Cardinality(Get(p_in, u) \cap Get(n_in, v)),      \* d4_2
        Cardinality(Get(n_in, u) \cap Get(p_in, v)),      \* d4_3
        Cardinality(Get(n_in, u) \cap Get(n_in, v)) >>    \* d4_4

\* what the call leaves in the four dicts: with intersection_update in place of
\* intersection on the first operand, pos_out_edgelist[u] loses members
tri_effect_inplace(u, v, r_edgelist) ==
  LET t == [k \in 1 .. 4 |-> Touch(Touch(r_edgelist[k], u), v)]
  IN [t EXCEPT ![2] = [x \in DOMAIN t[2] |->
                         IF x = u THEN t[2][u] \cap t[1][v] ELSE t[2][x]]]

\* what the call leaves in the four dicts: every one of them is read at u and
\* at v (lines 93-127), and a defaultdict creates the keys it is read at
tri_effect(u, v, r_edgelist) ==
  [k \in 1 .. 4 |-> Touch(Touch(r_edgelist[k], u), v)]

(***************************************************************************)
(* SiGAT.map_adj_to_edges: the (a, b) columns of the edge tensor, as a set *)
(* (the order of the columns is not modelled).                             *)
(***************************************************************************)
map_adj_to_edges(adj_list) == PairsOf(adj_list)

(***************************************************************************)
(* SiGAT.__init__                                                          *)
(***************************************************************************)
SigatInit ==
  /\ pc = "new"
  /\ dpc = "idle" /\ hop = 0 /\ w_s = << >> /\ w_t = << >> /\ trained = FALSE
  /\ x_s = << >> /\ x_t = << >> /\ edge_index = << << >>, << >> >>
  /\ edge_weight = << >> /\ feat_s = << >> /\ feat_t = << >>
  /\ curr_s = << >> /\ curr_t = << >> /\ h = 0 /\ feat = << >>
  /\ hidden = 0 /\ nclass = 0 /\ features = << >> /\ w_s0 = << >>
  /\ w_s1 = << >> /\ w_t0 = << >> /\ w_t1 = << >> /\ bias = << >>
  /\ W_prob = << >> /\ training = FALSE /\ z = << >> /\ output = << >>
  /\ predictions_cluster = << >> /\ prob = << >>
  /\ \E inp \in SigatInputs :
       /\ edge_index_s = inp[1]
       /\ in_dim = inp[2]
       /\ out_dim = inp[3]
  /\ x_shape = << >>
  /\ pos_edge_index = << >>
  /\ neg_edge_index = << >>
  /\ idx = 1
  /\ pos_edgelist = EmptyDict
  /\ pos_out_edgelist = EmptyDict
  /\ pos_in_edgelist = EmptyDict
  /\ neg_edgelist = EmptyDict
  /\ neg_out_edgelist = EmptyDict
  /\ neg_in_edgelist = EmptyDict
  /\ adj1 = EmptyDict
  /\ adj2 = EmptyDict
  /\ visited1 = {}
  /\ visited2 = {}
  /\ adj_additions1 = << >>
  /\ adj_additions2 = << >>
  /\ adj_lists = << >>
  /\ edge_lists = << >>
  /\ aggs = << >>
  /\ mlp_in = 0
  /\ last_call = "none"
  /\ last_result = [ok |-> TRUE, shape |-> << >>]
  /\ fwd_pairs = << >>

IsPos(r) == r[3] > 0
IsNeg(r) == r[3] < 0
\* edge_index_s[mask][:, :2]: the (i, j) of the rows kept, in order
Columns(rows) == [k \in 1 .. Len(rows) |-> << rows[k][1], rows[k][2] >>]

\* lines 36-50: dimensions, signed edge indices, embedding table
init_begin ==
  /\ UNCHANGED << dimpa_vars, digrac_vars >>
  /\ pc = "new"
  /\ pos_edge_index' = Columns(SelectSeq(edge_index_s, IsPos))
  /\ neg_edge_index' = Columns(SelectSeq(edge_index_s, IsNeg))
  /\ x_shape' = << NodeNum, in_dim >>
  /\ pc' = "scan"
  /\ UNCHANGED << edge_index_s, in_dim, out_dim, idx, pos_edgelist,
                  pos_out_edgelist, pos_in_edgelist, neg_edgelist,
                  neg_out_edgelist, neg_in_edgelist, adj1, adj2, visited1,
                  visited2, adj_additions1, adj_additions2, adj_lists,
                  edge_lists, aggs, mlp_in, last_call, last_result,
                  fwd_pairs >>

\* lines 143-154 with s >= 0 for s > 0
scan_row_nonneg(views, node_i, node_j, s) ==
  << IF s >= 0 THEN AddTo(AddTo(views[1], node_i, node_j), node_j, node_i)
     ELSE views[1],
     IF s >= 0 THEN AddTo(views[2], node_i, node_j) ELSE views[2],
     IF s >= 0 THEN AddTo(views[3], node_j, node_i) ELSE views[3],
     IF s < 0 THEN AddTo(AddTo(views[4], node_i, node_j), node_j, node_i)
     ELSE views[4],
     IF s < 0 THEN AddTo(views[5], node_i, node_j) ELSE views[5],
     IF s < 0 THEN AddTo(views[6], node_j, node_i) ELSE views[6] >>

\* lines 143-154: what the row (node_i, node_j, s) does to the six views
\* (pos, pos_out, pos_in, neg, neg_out, neg_in)
scan_row(views, node_i, node_j, s) ==
  << IF s > 0 THEN AddTo(AddTo(views[1], node_i, node_j), node_j, node_i)
     ELSE views[1],
     IF s > 0 THEN AddTo(views[2], node_i, node_j) ELSE views[2],
     IF s > 0 THEN AddTo(views[3], node_j, node_i) ELSE views[3],
     IF s < 0 THEN AddTo(AddTo(views[4], node_i, node_j), node_j, node_i)
     ELSE views[4],
     IF s < 0 THEN AddTo(views[5], node_i, node_j) ELSE views[5],
     IF s < 0 THEN AddTo(views[6], node_j, node_i) ELSE views[6] >>

\* build_adj_lists, lines 141-154: one row of edge_index_s_list
build_scan ==
  /\ UNCHANGED << dimpa_vars, digrac_vars >>
  /\ pc = "scan"
  /\ idx <= Len(edge_index_s)
  /\ LET after == scan_row(<< pos_edgelist, pos_out_edgelist, pos_in_edgelist,
                              neg_edgelist, neg_out_edgelist, neg_in_edgelist >>,
                           edge_index_s[idx][1], edge_index_s[idx][2],
                           edge_index_s[idx][3])
     IN /\ pos_edgelist' = after[1]
        /\ pos_out_edgelist' = after[2]
        /\ pos_in_edgelist' = after[3]
        /\ neg_edgelist' = after[4]
        /\ neg_out_edgelist' = after[5]
        /\ neg_in_edgelist' = after[6]
  /\ idx' = idx + 1
  /\ UNCHANGED << pc, edge_index_s, in_dim, out_dim, x_shape, pos_edge_index,
                  neg_edge_index, adj1, adj2, visited1, visited2,
                  adj_additions1, adj_additions2, adj_lists, edge_lists,
                  aggs, mlp_in, last_call, last_result, fwd_pairs >>

\* build_adj_lists, lines 156-163
build_copy ==
  /\ UNCHANGED << dimpa_vars, digrac_vars >>
  /\ pc = "scan"
  /\ idx > Len(edge_index_s)
  /\ adj_additions1' = [k \in 1 .. 16 |-> EmptyDict]
  /\ adj_additions2' = [k \in 1 .. 16 |-> EmptyDict]
  /\ adj1' = pos_out_edgelist
  /\ adj2' = neg_out_edgelist
  /\ pc' = "loop1"
  /\ UNCHANGED << edge_index_s, in_dim, out_dim, x_shape, pos_edge_index,
                  neg_edge_index, idx, pos_edgelist, pos_out_edgelist,
                  pos_in_edgelist, neg_edgelist, neg_out_edgelist,
                  neg_in_edgelist, visited1, visited2, adj_lists, edge_lists,
                  aggs, mlp_in, last_call, last_result, fwd_pairs >>

r_edgelist ==
  << pos_in_edgelist, pos_out_edgelist, neg_in_edgelist, neg_out_edgelist >>

\* lines 167-169 / 174-176: the views the pair (i, j) is added to
add_flagged_nonneg(additions, v_list, i, j) ==
  [index \in 1 .. 16 |->
     IF v_list[index] >= 0 THEN AddTo(additions[index], i, j)
     ELSE additions[index]]

add_flagged(additions, v_list, i, j) ==
  [index \in 1 .. 16 |->
     IF v_list[index] > 0 THEN AddTo(additions[index], i, j)
     ELSE additions[index]]

\* build_adj_lists, lines 164-169: one (i, j) of the loop over adj1
tri_step1 ==
  /\ UNCHANGED << dimpa_vars, digrac_vars >>
  /\ pc = "loop1"
  /\ \E p \in PairsOf(adj1) \ visited1 :
       LET i == p[1]
           j == p[2]
           v_list == get_tri_features(i, j, r_edgelist)
           after == tri_effect(i, j, r_edgelist)
       IN /\ adj_additions1' = add_flagged(adj_additions1, v_list, i, j)
          /\ pos_in_edgelist' = after[1]
          /\ pos_out_edgelist' = after[2]
          /\ neg_in_edgelist' = after[3]
          /\ neg_out_edgelist' = after[4]
          /\ visited1' = visited1 \cup {p}
  /\ UNCHANGED << pc, edge_index_s, in_dim, out_dim, x_shape, pos_edge_index,
                  neg_edge_index, idx, pos_edgelist, neg_edgelist, adj1, adj2,
                  visited2, adj_additions2, adj_lists, edge_lists, aggs,
                  mlp_in, last_call, last_result, fwd_pairs >>

\* the loop over adj1 is through
loop1_done ==
  /\ UNCHANGED << dimpa_vars, digrac_vars >>
  /\ pc = "loop1"
  /\ visited1 = PairsOf(adj1)
  /\ pc' = "loop2"
  /\ UNCHANGED << edge_index_s, in_dim, out_dim, x_shape, pos_edge_index,
                  neg_edge_index, idx, pos_edgelist, pos_out_edgelist,
                  pos_in_edgelist, neg_edgelist, neg_out_edgelist,
                  neg_in_edgelist, adj1, adj2, visited1, visited2,
                  adj_additions1, adj_additions2, adj_lists, edge_lists,
                  aggs, mlp_in, last_call, last_result, fwd_pairs >>

\* build_adj_lists, lines 171-176: one (i, j) of the loop over adj2
tri_step2 ==
  /\ UNCHANGED << dimpa_vars, digrac_vars >>
  /\ pc = "loop2"
  /\ \E p \in PairsOf(adj2) \ visited2 :
       LET i == p[1]
           j == p[2]
           v_list == get_tri_features(i, j, r_edgelist)
           after == tri_effect(i, j, r_edgelist)
       IN /\ adj_additions2' = add_flagged(adj_additions2, v_list, i, j)
          /\ pos_in_edgelist' = after[1]
          /\ pos_out_edgelist' = after[2]
          /\ neg_in_edgelist' = after[3]
          /\ neg_out_edgelist' = after[4]
          /\ visited2' = visited2 \cup {p}
  /\ UNCHANGED << pc, edge_index_s, in_dim, out_dim, x_shape, pos_edge_index,
                  neg_edge_index, idx, pos_edgelist, neg_edgelist, adj1, adj2,
                  visited1, adj_additions1, adj_lists, edge_lists, aggs,
                  mlp_in, last_call, last_result, fwd_pairs >>

\* lines 179-180: the list build_adj_lists returns
build_result_swapped ==
  << pos_edgelist, pos_in_edgelist, pos_out_edgelist,
     neg_edgelist, neg_out_edgelist, neg_in_edgelist >>
    \o adj_additions1 \o adj_additions2

build_result ==
  << pos_edgelist, pos_out_edgelist, pos_in_edgelist,
     neg_edgelist, neg_out_edgelist, neg_in_edgelist >>
    \o adj_additions1 \o adj_additions2

\* line 52: self.adj_lists = self.build_adj_lists(edge_index_s)
build_return ==
  /\ UNCHANGED << dimpa_vars, digrac_vars >>
  /\ pc = "loop2"
  /\ visited2 = PairsOf(adj2)
  /\ adj_lists' = build_result
  /\ pc' = "built"
  /\ UNCHANGED << edge_index_s, in_dim, out_dim, x_shape, pos_edge_index,
                  neg_edge_index, idx, pos_edgelist, pos_out_edgelist,
                  pos_in_edgelist, neg_edgelist, neg_out_edgelist,
                  neg_in_edgelist, adj1, adj2, visited1, visited2,
                  adj_additions1, adj_additions2, edge_lists, aggs, mlp_in,
                  last_call, last_result, fwd_pairs >>

\* lines 61-63: in_features of the first layer of mlp_layer
mlp_in_features == out_dim * (Len(adj_lists) + 1)

\* lines 53-66: one edge tensor and one GATConv per view, then mlp_layer
init_layers ==
  /\ UNCHANGED << dimpa_vars, digrac_vars >>
  /\ pc = "built"
  /\ edge_lists' = [k \in 1 .. Len(adj_lists) |-> map_adj_to_edges(adj_lists[k])]
  /\ aggs' = [k \in 1 .. Len(adj_lists) |->
                [name |-> k - 1, in_channels |-> in_dim, out_channels |-> out_dim]]
  /\ mlp_in' = mlp_in_features
  /\ pc' = "ready"
  /\ UNCHANGED << edge_index_s, in_dim, out_dim, x_shape, pos_edge_index,
                  neg_edge_index, idx, pos_edgelist, pos_out_edgelist,
                  pos_in_edgelist, neg_edgelist, neg_out_edgelist,
                  neg_in_edgelist, adj1, adj2, visited1, visited2,
                  adj_additions1, adj_additions2, adj_lists, last_call,
                  last_result, fwd_pairs >>

(***************************************************************************)
(* SiGAT.forward and SiGAT.loss.  Only the shapes of the tensors are       *)
(* modelled: the attention kernels are torch_geometric's.                  *)
(***************************************************************************)
Min(a, b) == IF a < b THEN a ELSE b
ShapeError == [ok |-> FALSE, shape |-> << >>]
ShapeOk(rows, cols) == [ok |-> TRUE, shape |-> << rows, cols >>]

\* GATConv(in_channels, out_channels)(x, edges): one row per node
GATConv(agg, xs, edges) ==
  IF xs[2] = agg.in_channels THEN ShapeOk(xs[1], agg.out_channels)
  ELSE ShapeError

RECURSIVE SumCols(_, _)
SumCols(shapes, n) ==
  IF n = 0 THEN 0 ELSE shapes[n].shape[2] + SumCols(shapes, n - 1)

\* lines 185-188: zip(self.edge_lists, self.aggs)
neigh_feats ==
  [k \in 1 .. Min(Len(edge_lists), Len(aggs)) |->
     GATConv(aggs[k], x_shape, edge_lists[k])]

\* lines 190-193: torch.cat([x0] + neigh_feats, 1), then mlp_layer
forward_result ==
  IF \E k \in DOMAIN neigh_feats : ~ neigh_feats[k].ok THEN ShapeError
  ELSE LET width == x_shape[2] + SumCols(neigh_feats, Len(neigh_feats))
       IN IF width = mlp_in THEN ShapeOk(x_shape[1], out_dim) ELSE ShapeError

\* the self loops GATConv adds to the edges it is given
with_self_loops(edges) == edges \cup { << n, n >> : n \in Nodes }

forward_body(call, result, new_edge_lists) ==
  /\ UNCHANGED << dimpa_vars, digrac_vars >>
  /\ pc = "ready"
  /\ last_call' = call
  /\ last_result' = result
  /\ fwd_pairs' = [k \in 1 .. Min(Len(edge_lists), Len(aggs)) |->
                     << k - 1, aggs[k].name >>]
  /\ edge_lists' = new_edge_lists
  /\ UNCHANGED << pc, edge_index_s, in_dim, out_dim, x_shape, pos_edge_index,
                  neg_edge_index, idx, pos_edgelist, pos_out_edgelist,
                  pos_in_edgelist, neg_edgelist, neg_out_edgelist,
                  neg_in_edgelist, adj1, adj2, visited1, visited2,
                  adj_additions1, adj_additions2, adj_lists, aggs, mlp_in >>

\* forward with the self loops written back into self.edge_lists
forward_inplace ==
  forward_body("forward", forward_result,
               [k \in DOMAIN edge_lists |-> with_self_loops(edge_lists[k])])

\* lines 182-193: self.edge_lists is read, GATConv works on its own copy
forward == forward_body("forward", forward_result, edge_lists)

\* lines 195-198: forward, then a scalar from lsp_loss
loss ==
  forward_body("loss",
               IF forward_result.ok THEN [ok |-> TRUE, shape |-> << >>]
               ELSE ShapeError,
               edge_lists)

(***************************************************************************)
(* Tensors of DIGRAC.py.  A real number is an exact rational << n, d >>    *)
(* with d > 0, in lowest terms; a matrix is a sequence of rows, row n + 1  *)
(* being node n.                                                           *)
(***************************************************************************)
Abs(n) == IF n < 0 THEN -n ELSE n
RECURSIVE GCD(_, _)
GCD(a, b) == IF b = 0 THEN a ELSE GCD(b, a % b)
RNorm(n, d) == LET g == GCD(Abs(n), d) IN << n \div g, d \div g >>
R(n) == << n, 1 >>
\* the sum over the least common denominator, the product after cancelling
\* across: the numbers in between stay small
RAdd(a, b) ==
  LET g == GCD(a[2], b[2])
  IN RNorm(a[1] * (b[2] \div g) + b[1] * (a[2] \div g), (a[2] \div g) * b[2])
RMul(a, b) ==
  LET g1 == GCD(Abs(a[1]), b[2])
      g2 == GCD(Abs(b[1]), a[2])
  IN IF a[1] = 0 \/ b[1] = 0 THEN << 0, 1 >>
     ELSE << (a[1] \div g1) * (b[1] \div g2), (a[2] \div g2) * (b[2] \div g1) >>
\* a / b, b > 0
RDiv(a, b) == RMul(a, << b[2], b[1] >>)
RLess(a, b) ==
  LET g == GCD(a[2], b[2]) IN a[1] * (b[2] \div g) < b[1] * (a[2] \div g)

NRows(M) == Len(M)
NCols(M) == IF Len(M) = 0 THEN 0 ELSE Len(M[1])
Shape(M) == << NRows(M), NCols(M) >>
\* a matrix given by a rule, as the tuple of tuples of its entries
RECURSIVE RowUpTo(_, _)
RowUpTo(row, k) == IF k = 0 THEN << >> ELSE Append(RowUpTo(row, k - 1), row[k])
RECURSIVE RowsUpTo(_, _)
RowsUpTo(M, n) ==
  IF n = 0 THEN << >> ELSE Append(RowsUpTo(M, n - 1), RowUpTo(M[n], Len(M[n])))
Tensor(M) == RowsUpTo(M, Len(M))
\* w * X for a scalar w
Scale(w, X) ==
  Tensor([n \in 1 .. NRows(X) |-> [c \in 1 .. NCols(X) |-> RMul(w, X[n][c])]])
MAdd(X, Y) ==
  Tensor([n \in 1 .. NRows(X) |-> [c \in 1 .. NCols(X) |-> RAdd(X[n][c], Y[n][c])]])
RECURSIVE DotUpTo(_, _, _, _, _)
DotUpTo(A, B, n, c, k) ==
  IF k = 0 THEN R(0)
  ELSE RAdd(DotUpTo(A, B, n, c, k - 1), RMul(A[n][k], B[k][c]))
\* torch.mm(A, B), NCols(A) = NRows(B)
MatMul(A, B) ==
  Tensor([n \in 1 .. NRows(A) |->
            [c \in 1 .. NCols(B) |-> DotUpTo(A, B, n, c, NCols(A))]])
\* torch.cat([A, B], dim=0)
cat_dim0(A, B) == A \o B
\* torch.cat([A, B], dim=1)
cat_dim1(A, B) == [n \in 1 .. NRows(A) |-> A[n] \o B[n]]

(***************************************************************************)
(* Conv_Base (nn/general/conv_base.py), one propagation step:              *)
(* out[i] = sum over the edges (i, j, w) of (w / deg[i]) * x[j], the edges *)
(* being those of edge_index plus a self loop of weight fill_value at      *)
(* every node, and deg[i] the sum of the weights of the edges leaving i.   *)
(***************************************************************************)
fill_value == << 1, 2 >>
GraphNodes == 0 .. (NumNodes - 1)
\* the edges with the self loops, as << row, col, weight >>
LoopedEdges(ei, ew) ==
  [e \in 1 .. Len(ew) |-> << ei[1][e], ei[2][e], R(ew[e]) >>]
    \o [n \in 1 .. NumNodes |-> << n - 1, n - 1, fill_value >>]
RECURSIVE DegUpTo(_, _, _)
DegUpTo(E, i, k) ==
  IF k = 0 THEN R(0)
  ELSE IF E[k][1] = i THEN RAdd(DegUpTo(E, i, k - 1), E[k][3])
       ELSE DegUpTo(E, i, k - 1)
RECURSIVE AggUpTo(_, _, _, _, _, _)
AggUpTo(E, x, i, c, deg, k) ==
  IF k = 0 THEN R(0)
  ELSE IF E[k][1] = i
       THEN RAdd(AggUpTo(E, x, i, c, deg, k - 1),
                 RMul(RDiv(E[k][3], deg), x[E[k][2] + 1][c]))
       ELSE AggUpTo(E, x, i, c, deg, k - 1)
conv_layer(x, ei, ew) ==
  LET E == LoopedEdges(ei, ew)
  IN Tensor([n \in 1 .. NRows(x) |->
               LET deg == DegUpTo(E, n - 1, Len(E))
               IN [c \in 1 .. NCols(x) |-> AggUpTo(E, x, n - 1, c, deg, Len(E))]])

(***************************************************************************)
(* DIMPA                                                                   *)
(***************************************************************************)
\* DIMPA._reset_parameters, lines 27-29
reset_parameters(ws, wt) ==
  << [k \in DOMAIN ws |-> R(1)], [k \in DOMAIN wt |-> R(1)] >>

\* line 49 without the swap
edge_index_same(ei) == ei
\* line 49: edge_index[[1, 0]]
edge_index_t(ei) == << ei[2], ei[1] >>

\* what torch.FloatTensor(hop + 1, 1) holds before it is filled: memory that
\* was never written, here one of two fillings
UninitFills == { << 0, 7 >>, << 7, 0 >> }

\* DIMPA.__init__, lines 16-25
dimpa_init ==
  /\ dpc = "d_new"
  /\ \E g \in UninitFills :
       LET alloc_s == [k \in 1 .. hop + 1 |-> R(g[1])]
           alloc_t == [k \in 1 .. hop + 1 |-> R(g[2])]
           filled == reset_parameters(alloc_s, alloc_t)
       IN /\ w_s' = filled[1]
          /\ w_t' = filled[2]
  /\ dpc' = "d_call"
  /\ UNCHANGED << hop, trained, x_s, x_t, edge_index, edge_weight, feat_s,
                  feat_t, curr_s, curr_t, h, feat >>
  /\ UNCHANGED << sigat_vars, digrac_vars >>


\* a training step between two calls: the optimizer rewrites the per-hop
\* weights, here to k + 1 on the source side and 2 - k on the target side
dimpa_optimizer_step ==
  /\ dpc = "d_call"
  /\ ~ trained
  /\ trained' = TRUE
  /\ w_s' = [k \in 1 .. hop + 1 |-> R(k + 1)]
  /\ w_t' = [k \in 1 .. hop + 1 |-> R(2 - k)]
  /\ UNCHANGED << dpc, hop, x_s, x_t, edge_index, edge_weight, feat_s,
                  feat_t, curr_s, curr_t, h, feat >>
  /\ UNCHANGED << sigat_vars, digrac_vars >>

\* DIMPA.forward, lines 45-49
dimpa_begin ==
  /\ dpc = "d_call"
  /\ feat_s' = Scale(w_s[1], x_s)
  /\ feat_t' = Scale(w_t[1], x_t)
  /\ curr_s' = x_s
  /\ curr_t' = x_t
  /\ h' = 1
  /\ dpc' = "d_loop"
  /\ UNCHANGED << hop, w_s, w_t, trained, x_s, x_t, edge_index, edge_weight,
                  feat >>
  /\ UNCHANGED << sigat_vars, digrac_vars >>

\* DIMPA.forward, lines 50-54: one hop
dimpa_hop ==
  /\ dpc = "d_loop"
  /\ h <= hop
  /\ LET next_s == conv_layer(curr_s, edge_index, edge_weight)
         next_t == conv_layer(curr_t, edge_index_t(edge_index), edge_weight)
     IN /\ curr_s' = next_s
        /\ curr_t' = next_t
        /\ feat_s' = MAdd(feat_s, Scale(w_s[h + 1], next_s))
        /\ feat_t' = MAdd(feat_t, Scale(w_t[h + 1], next_t))
  /\ h' = h + 1
  /\ UNCHANGED << dpc, hop, w_s, w_t, trained, x_s, x_t, edge_index,
                  edge_weight, feat >>
  /\ UNCHANGED << sigat_vars, digrac_vars >>

\* DIMPA.forward, lines 56-58
dimpa_return ==
  /\ dpc = "d_loop"
  /\ h > hop
  /\ feat' = cat_dim1(feat_s, feat_t)
  /\ dpc' = "d_done"
  /\ UNCHANGED << hop, w_s, w_t, trained, x_s, x_t, edge_index, edge_weight,
                  feat_s, feat_t, curr_s, curr_t, h >>
  /\ UNCHANGED << sigat_vars, digrac_vars >>

(***************************************************************************)
(* Inputs of DIMPA and DIGRAC.                                             *)
(***************************************************************************)
\* an N x d matrix of entries -1, 0, 1: (a * n + b * c) mod 3, less 1, at
\* row n, column c
Pattern(N, d, a, b) ==
  [n \in 1 .. N |-> [c \in 1 .. d |-> R(((a * n + b * c) % 3) - 1)]]
\* directed graphs: at most MaxGraphEdges distinct (row, col), ascending,
\* self loops allowed, as the 2 x E tensor << rows, cols >>
GraphPairs == GraphNodes \X GraphNodes
PairKey(q) == q[1] * NumNodes + q[2]
PairLists ==
  UNION { { e \in [1 .. n -> GraphPairs] :
              \A a \in 1 .. n : \A b \in 1 .. n :
                 a < b => PairKey(e[a]) < PairKey(e[b]) } : n \in 0 .. MaxGraphEdges }
AsEdgeIndex(l) == << [e \in 1 .. Len(l) |-> l[e][1]], [e \in 1 .. Len(l) |-> l[e][2]] >>
\* edge weights: all 1, or 1, 2, 3, ... along the list
WeightLists(n) == { [e \in 1 .. n |-> 1], [e \in 1 .. n |-> e] }

SigatIdle ==
  /\ pc = "idle"
  /\ edge_index_s = << >>
  /\ in_dim = 0
  /\ out_dim = 0
  /\ x_shape = << >>
  /\ pos_edge_index = << >>
  /\ neg_edge_index = << >>
  /\ idx = 1
  /\ pos_edgelist = EmptyDict
  /\ pos_out_edgelist = EmptyDict
  /\ pos_in_edgelist = EmptyDict
  /\ neg_edgelist = EmptyDict
  /\ neg_out_edgelist = EmptyDict
  /\ neg_in_edgelist = EmptyDict
  /\ adj1 = EmptyDict
  /\ adj2 = EmptyDict
  /\ visited1 = {}
  /\ visited2 = {}
  /\ adj_additions1 = << >>
  /\ adj_additions2 = << >>
  /\ adj_lists = << >>
  /\ edge_lists = << >>
  /\ aggs = << >>
  /\ mlp_in = 0
  /\ last_call = "none"
  /\ last_result = [ok |-> TRUE, shape |-> << >>]
  /\ fwd_pairs = << >>

DimpaIdle ==
  /\ dpc = "idle"
  /\ hop = 0
  /\ w_s = << >>
  /\ w_t = << >>
  /\ trained = FALSE
  /\ x_s = << >>
  /\ x_t = << >>
  /\ edge_index = << << >>, << >> >>
  /\ edge_weight = << >>
  /\ feat_s = << >>
  /\ feat_t = << >>
  /\ curr_s = << >>
  /\ curr_t = << >>
  /\ h = 0
  /\ feat = << >>

DigracIdle ==
  /\ hidden = 0
  /\ nclass = 0
  /\ features = << >>
  /\ w_s0 = << >>
  /\ w_s1 = << >>
  /\ w_t0 = << >>
  /\ w_t1 = << >>
  /\ bias = << >>
  /\ W_prob = << >>
  /\ training = FALSE
  /\ z = << >>
  /\ output = << >>
  /\ predictions_cluster = << >>
  /\ prob = << >>

\* a DIMPA about to be built, and the arguments its forward will be given
DimpaInit ==
  /\ SigatIdle
  /\ DigracIdle
  /\ dpc = "d_new"
  /\ hop \in 0 .. MaxHop
  /\ w_s = << >>
  /\ w_t = << >>
  /\ trained = FALSE
  /\ \E d \in 1 .. MaxHidden :
       /\ x_s = Pattern(NumNodes, d, -1, 1)
       /\ x_t = Pattern(NumNodes, d, 1, 1)
  /\ \E l \in PairLists :
       /\ edge_index = AsEdgeIndex(l)
       /\ edge_weight \in WeightLists(Len(l))
  /\ feat_s = << >>
  /\ feat_t = << >>
  /\ curr_s = << >>
  /\ curr_t = << >>
  /\ h = 0
  /\ feat = << >>

DimpaNext ==
  \/ dimpa_init
  \/ dimpa_optimizer_step
  \/ dimpa_begin
  \/ dimpa_hop
  \/ dimpa_return

SpecDimpa == DimpaInit /\ [][DimpaNext]_vars

(***************************************************************************)
(* DIGRAC                                                                  *)
(***************************************************************************)
\* 1 / (1 - p) for the dropout probability p = 1/2
dropout_scale == << 2, 1 >>

Zero == R(0)
\* torch.nn.ReLU
relu(X) ==
  [n \in 1 .. NRows(X) |->
     [c \in 1 .. NCols(X) |-> IF RLess(X[n][c], Zero) THEN Zero ELSE X[n][c]]]
\* torch.nn.Dropout: in training the entries of the mask are zeroed and the
\* others scaled by 1 / (1 - p); in evaluation the identity
dropout(X, mask, train) ==
  IF ~ train THEN X
  ELSE [n \in 1 .. NRows(X) |->
          [c \in 1 .. NCols(X) |->
             IF << n, c >> \in mask THEN Zero ELSE RMul(dropout_scale, X[n][c])]]
\* the masks the two dropout calls of a forward pass draw for N x d matrices
\* (source side, target side): one entry dropped on one side, a whole side
\* dropped
Masks(N, d) ==
  { << {}, { << 1, 1 >> } >>, << (1 .. N) \X (1 .. d), {} >> }

\* index (from 0) of the first greatest entry of a row of numbers
RECURSIVE ArgMaxUpTo(_, _)
ArgMaxUpTo(row, k) ==
  IF k = 1 THEN 1
  ELSE LET best == ArgMaxUpTo(row, k - 1)
       IN IF RLess(row[best], row[k]) THEN k ELSE best
argmax(row) == ArgMaxUpTo(row, Len(row)) - 1
\* torch.argmax(M, dim=1)
argmax_dim1(M) == [n \in 1 .. NRows(M) |-> argmax(M[n])]

\* F.softmax(M, dim=1): entry k of row n is exp(M[n][k]) / sum_j exp(M[n][j]),
\* kept as the exponent e and the row the sum runs over
softmax(M) ==
  [n \in 1 .. NRows(M) |-> [k \in 1 .. NCols(M) |-> [e |-> M[n][k], over |-> M[n]]]]
\* F.log_softmax(M, dim=1): entry k of row n is M[n][k] - log sum_j exp(M[n][j])
log_softmax(M) ==
  [n \in 1 .. NRows(M) |-> [k \in 1 .. NCols(M) |-> [x |-> M[n][k], lse |-> M[n]]]]
\* F.normalize(M), with its defaults p = 2 and dim = 1: row n is M[n] divided
\* by max(its p-norm, eps), kept as the row v and the p of the norm
normalize(M) == [n \in 1 .. NRows(M) |-> [v |-> M[n], p |-> 2]]

\* M + b, b added to every row
add_bias(M, b) ==
  [n \in 1 .. NRows(M) |-> [k \in 1 .. NCols(M) |-> RAdd(M[n][k], b[k])]]

\* line 132 taken before the bias is added
predict_unbiased(scores, b) == argmax_dim1(scores)
\* lines 129-132: the cluster of each node, from the biased logits
predict(scores, b) == argmax_dim1(add_bias(scores, b))

\* the values xavier_uniform_ may leave in the parameters
\* (w_s0, w_s1, w_t0, w_t1, W_prob)
XavierDraws(hid, ncl) ==
  { << Pattern(NumFeat, hid, 1, -1), Pattern(hid, hid, 1, 0),
       Pattern(NumFeat, hid, -1, 2), Pattern(hid, hid, 1, -2),
       Pattern(2 * hid, ncl, 1, -1) >>,
    << Pattern(NumFeat, hid, 1, 0), Pattern(hid, hid, -1, 1),
       Pattern(NumFeat, hid, 2, -1), Pattern(hid, hid, 0, 1),
       Pattern(2 * hid, ncl, -1, 1) >> }

\* DIGRAC.__init__, lines 72-99
digrac_init ==
  /\ dpc = "g_new"
  /\ \E g \in UninitFills :
       LET alloc_s == [k \in 1 .. hop + 1 |-> R(g[1])]
           alloc_t == [k \in 1 .. hop + 1 |-> R(g[2])]
           filled == reset_parameters(alloc_s, alloc_t)
       IN /\ w_s' = filled[1]
          /\ w_t' = filled[2]
  /\ \E p \in XavierDraws(hidden, nclass) :
       /\ w_s0' = p[1]
       /\ w_s1' = p[2]
       /\ w_t0' = p[3]
       /\ w_t1' = p[4]
       /\ W_prob' = p[5]
  /\ bias' = [k \in 1 .. nclass |-> Zero]
  /\ dpc' = "g_ready"
  /\ UNCHANGED << hop, trained, x_s, x_t, edge_index, edge_weight, feat_s,
                  feat_t, curr_s, curr_t, h, feat >>
  /\ UNCHANGED << hidden, nclass, features, training, z, output,
                  predictions_cluster, prob >>
  /\ UNCHANGED sigat_vars

\* a training step between two calls: the optimizer rewrites the bias and
\* the per-hop weights
digrac_optimizer_step ==
  /\ dpc = "g_ready"
  /\ ~ trained
  /\ trained' = TRUE
  /\ bias' = [k \in 1 .. nclass |-> R(2 * k - 3)]
  /\ w_s' = [k \in 1 .. hop + 1 |-> R(k + 1)]
  /\ w_t' = [k \in 1 .. hop + 1 |-> R(2 - k)]
  /\ UNCHANGED << dpc, hop, x_s, x_t, edge_index, edge_weight, feat_s,
                  feat_t, curr_s, curr_t, h, feat >>
  /\ UNCHANGED << hidden, nclass, features, w_s0, w_s1, w_t0, w_t1, W_prob,
                  training, z, output, predictions_cluster, prob >>
  /\ UNCHANGED sigat_vars

\* DIGRAC.forward, lines 117-127: the two perceptrons, then the call of DIMPA
digrac_mlp ==
  /\ dpc = "g_ready"
  /\ \E m \in Masks(NumNodes, hidden) :
       /\ x_s' = MatMul(dropout(relu(MatMul(features, w_s0)), m[1], training), w_s1)
       /\ x_t' = MatMul(dropout(relu(MatMul(features, w_t0)), m[2], training), w_t1)
  /\ dpc' = "d_call"
  /\ UNCHANGED << hop, w_s, w_t, trained, edge_index, edge_weight, feat_s,
                  feat_t, curr_s, curr_t, h, feat >>
  /\ UNCHANGED digrac_vars
  /\ UNCHANGED sigat_vars

\* DIGRAC.forward, lines 127-138, from the return of DIMPA
digrac_head ==
  /\ dpc = "d_done"
  /\ IF NCols(feat) = NRows(W_prob)
     THEN LET out == add_bias(MatMul(feat, W_prob), bias)
          IN /\ predictions_cluster' = predict(MatMul(feat, W_prob), bias)
             /\ prob' = softmax(out)
             /\ output' = log_softmax(out)
             /\ z' = normalize(feat)
             /\ dpc' = "g_done"
     ELSE \* torch.mm raises on the mismatch
          /\ dpc' = "g_error"
          /\ UNCHANGED << predictions_cluster, prob, output, z >>
  /\ UNCHANGED << hop, w_s, w_t, trained, x_s, x_t, edge_index, edge_weight,
                  feat_s, feat_t, curr_s, curr_t, h, feat >>
  /\ UNCHANGED << hidden, nclass, features, w_s0, w_s1, w_t0, w_t1, bias,
                  W_prob, training >>
  /\ UNCHANGED sigat_vars

\* a DIGRAC about to be built, and the arguments its forward will be given
DigracInit ==
  /\ SigatIdle
  /\ dpc = "g_new"
  /\ hop \in 0 .. MaxHop
  /\ hidden \in 1 .. MaxHidden
  /\ nclass = hidden + 1
  /\ training \in BOOLEAN
  /\ features = Pattern(NumNodes, NumFeat, 1, -1)
  /\ \E l \in PairLists :
       /\ edge_index = AsEdgeIndex(l)
       /\ edge_weight = [e \in 1 .. Len(l) |-> 1]
  /\ w_s = << >>
  /\ w_t = << >>
  /\ trained = FALSE
  /\ x_s = << >>
  /\ x_t = << >>
  /\ feat_s = << >>
  /\ feat_t = << >>
  /\ curr_s = << >>
  /\ curr_t = << >>
  /\ h = 0
  /\ feat = << >>
  /\ w_s0 = << >>
  /\ w_s1 = << >>
  /\ w_t0 = << >>
  /\ w_t1 = << >>
  /\ bias = << >>
  /\ W_prob = << >>
  /\ z = << >>
  /\ output = << >>
  /\ predictions_cluster = << >>
  /\ prob = << >>

DigracNext ==
  \/ digrac_init
  \/ digrac_optimizer_step
  \/ digrac_mlp
  \/ dimpa_begin
  \/ dimpa_hop
  \/ dimpa_return
  \/ digrac_head

SpecDigrac == DigracInit /\ [][DigracNext]_vars

SigatNext ==
  \/ init_begin
  \/ build_scan
  \/ build_copy
  \/ tri_step1
  \/ loop1_done
  \/ tri_step2
  \/ build_return
  \/ init_layers
  \/ forward
  \/ loss

Spec == SigatInit /\ [][SigatNext]_vars

(***************************************************************************)
(* Properties of SiGAT, under Spec.                                        *)
(***************************************************************************)
\* the edge list holds a row (i, j, s) with s > 0, with s < 0
PosEdge(i, j) ==
  \E n \in 1 .. Len(edge_index_s) :
     edge_index_s[n][1] = i /\ edge_index_s[n][2] = j /\ edge_index_s[n][3] > 0
NegEdge(i, j) ==
  \E n \in 1 .. Len(edge_index_s) :
     edge_index_s[n][1] = i /\ edge_index_s[n][2] = j /\ edge_index_s[n][3] < 0
\* build_adj_lists has returned
Returned == pc \in {"built", "ready"}
NoSelfLoop ==
  \A n \in 1 .. Len(edge_index_s) : edge_index_s[n][1] # edge_index_s[n][2]

\* (i, j) is in the k-th positive-source view iff it is a positive edge with
\* counts[k] > 0, in the k-th negative-source view iff it is a negative edge
\* with counts[k] > 0, for every k (counted from 0)
FlaggedBy(i, j, counts, is_pos, is_neg) ==
  \A k \in 0 .. 15 :
     /\ (j \in Get(adj_lists[6 + k + 1], i)) <=> (is_pos /\ counts[k + 1] > 0)
     /\ (j \in Get(adj_lists[22 + k + 1], i)) <=> (is_neg /\ counts[k + 1] > 0)

\* C2: once build_adj_lists has returned, for every k in 0..15 the view at
\* index 6+k holds (i, j) exactly when (i, j) is an edge of sign > 0 whose
\* k-th triad count is > 0, and the view at index 22+k holds (i, j) exactly
\* when (i, j) is an edge of sign < 0 whose k-th triad count is > 0.
C2_TriadViews ==
  Returned =>
    \A i \in Nodes : \A j \in Nodes :
       FlaggedBy(i, j, get_tri_features(i, j, r_edgelist), PosEdge(i, j), NegEdge(i, j))

\* a triangle without self loops has put a positive edge in one of the 16
\* positive-source views, a negative edge in one of the negative-source views,
\* and left some edge out of some view
C2_Witness ==
  /\ Returned
  /\ Len(edge_index_s) = 3
  /\ NoSelfLoop
  /\ \E k \in 0 .. 15 : \E i \in Nodes : \E j \in Nodes :
        j \in Get(adj_lists[6 + k + 1], i)
  /\ \E k \in 0 .. 15 : \E i \in Nodes : \E j \in Nodes :
        j \in Get(adj_lists[22 + k + 1], i)
  /\ \E k \in 0 .. 15 : \E i \in Nodes : \E j \in Nodes :
        PosEdge(i, j) /\ j \notin Get(adj_lists[6 + k + 1], i)

\* the involution of C3 on the indices 0..15, listed by index
TriSwap == << 8, 10, 9, 11, 4, 6, 5, 7, 0, 2, 1, 3, 12, 14, 13, 15 >>
\* the 16 counts moved by it: count k is count s(k) of the counts given
Swapped(counts) == [k \in 1 .. 16 |-> counts[TriSwap[k] + 1]]

\* C3: for all nodes u, v and the four views as they are while they are
\* filled and while the triad loops query them, count k of
\* get_tri_features(u, v) is count s(k) of get_tri_features(v, u), s swapping
\* 0<->8, 1<->10, 2<->9, 3<->11, 5<->6, 13<->14 and fixing 4, 7, 12, 15.
C3_TriadSymmetry ==
  pc \in {"scan", "loop1", "loop2"} =>
    \A u \in Nodes : \A v \in Nodes :
       get_tri_features(u, v, r_edgelist)
         = Swapped(get_tri_features(v, u, r_edgelist))

\* the triad loops are under way on views where the swap moves counts: for
\* two distinct nodes count 1 (positive out of u, negative into v) is positive
\* and differs between (u, v) and (v, u), and for some pair counts 9 and 10
\* differ
C3_Witness ==
  /\ pc = "loop2"
  /\ visited1 # {}
  /\ \E u \in Nodes : \E v \in Nodes :
        /\ u # v
        /\ get_tri_features(u, v, r_edgelist)[2] > 0
        /\ get_tri_features(u, v, r_edgelist)[2] # get_tri_features(v, u, r_edgelist)[2]
  /\ \E u \in Nodes : \E v \in Nodes :
        get_tri_features(u, v, r_edgelist)[10] # get_tri_features(u, v, r_edgelist)[11]

\* C5: once the model is constructed, no step (forward, loss) changes
\* adj_lists, edge_lists, pos_edge_index or neg_edge_index.
C5_AdjacencyFrozen ==
  [][pc = "ready" =>
       /\ adj_lists' = adj_lists
       /\ edge_lists' = edge_lists
       /\ pos_edge_index' = pos_edge_index
       /\ neg_edge_index' = neg_edge_index]_vars

\* loss has been called on a model with positive and negative edges and a
\* triadic view that is not empty
C5_Witness ==
  /\ pc = "ready"
  /\ last_call = "loss"
  /\ Len(pos_edge_index) > 0
  /\ Len(neg_edge_index) > 0
  /\ \E k \in 7 .. 38 : edge_lists[k] # {}

\* C6: for every in_dim and out_dim, forward returns a (node_num, out_dim)
\* embedding: the width of the concatenation is the input size of mlp_layer.
C6_ForwardShape ==
  (pc = "ready" /\ last_call = "forward") =>
     /\ x_shape[2] + SumCols(neigh_feats, Len(neigh_feats)) = mlp_in
     /\ last_result = ShapeOk(NodeNum, out_dim)

\* C8: build_adj_lists returns 38 views in the order positive, positive-out,
\* positive-in, negative, negative-out, negative-in, 16 positive-source and 16
\* negative-source triadic views, for every edge list; construction makes one
\* edge list and one aggregator per view, and forward pairs edge_lists[i]
\* with aggs[i].
C8_ViewsAndLayers ==
  /\ Returned =>
       /\ Len(adj_lists) = 38
       /\ PairsOf(adj_lists[2]) = { q \in Nodes \X Nodes : PosEdge(q[1], q[2]) }
       /\ PairsOf(adj_lists[3]) = { q \in Nodes \X Nodes : PosEdge(q[2], q[1]) }
       /\ PairsOf(adj_lists[1]) = PairsOf(adj_lists[2]) \cup PairsOf(adj_lists[3])
       /\ PairsOf(adj_lists[5]) = { q \in Nodes \X Nodes : NegEdge(q[1], q[2]) }
       /\ PairsOf(adj_lists[6]) = { q \in Nodes \X Nodes : NegEdge(q[2], q[1]) }
       /\ PairsOf(adj_lists[4]) = PairsOf(adj_lists[5]) \cup PairsOf(adj_lists[6])
       /\ \A k \in 7 .. 22 : PairsOf(adj_lists[k]) \subseteq PairsOf(adj_lists[2])
       /\ \A k \in 23 .. 38 : PairsOf(adj_lists[k]) \subseteq PairsOf(adj_lists[5])
  /\ pc = "ready" =>
       /\ Len(edge_lists) = 38
       /\ Len(aggs) = 38
       /\ \A k \in 1 .. 38 : edge_lists[k] = PairsOf(adj_lists[k])
       /\ \A k \in 1 .. 38 : aggs[k].name = k - 1
  /\ last_call # "none" =>
       fwd_pairs = [k \in 1 .. 38 |-> << k - 1, k - 1 >>]

\* forward has run on a model built from the empty edge list
C8_Witness ==
  /\ pc = "ready"
  /\ last_call = "forward"
  /\ edge_index_s = << >>
  /\ Len(fwd_pairs) = 38

\* C9: in the list returned, j is in positive-out[i] iff there is a row
\* (i, j, s) with s > 0, positive-in is its transpose, positive is the union of
\* the two and symmetric; the same for the negative views with s < 0; a row
\* with s = 0 puts nothing in any of the six views.
C9_BaseViews ==
  Returned =>
    /\ \A i \in Nodes : \A j \in Nodes :
         /\ (j \in Get(adj_lists[2], i)) <=> PosEdge(i, j)
         /\ (i \in Get(adj_lists[3], j)) <=> (j \in Get(adj_lists[2], i))
         /\ (j \in Get(adj_lists[1], i))
              <=> (j \in Get(adj_lists[2], i) \/ j \in Get(adj_lists[3], i))
         /\ (j \in Get(adj_lists[1], i)) <=> (i \in Get(adj_lists[1], j))
         /\ (j \in Get(adj_lists[5], i)) <=> NegEdge(i, j)
         /\ (i \in Get(adj_lists[6], j)) <=> (j \in Get(adj_lists[5], i))
         /\ (j \in Get(adj_lists[4], i))
              <=> (j \in Get(adj_lists[5], i) \/ j \in Get(adj_lists[6], i))
         /\ (j \in Get(adj_lists[4], i)) <=> (i \in Get(adj_lists[4], j))
    /\ \A n \in 1 .. Len(edge_index_s) :
         LET i == edge_index_s[n][1]
             j == edge_index_s[n][2]
         IN (/\ edge_index_s[n][3] = 0
             /\ ~ PosEdge(i, j) /\ ~ PosEdge(j, i)
             /\ ~ NegEdge(i, j) /\ ~ NegEdge(j, i))
            => \A k \in 1 .. 6 : j \notin Get(adj_lists[k], i)

\* the list returned comes from a row of sign 0 and a row of sign > 0
C9_Witness ==
  /\ Returned
  /\ \E n \in 1 .. Len(edge_index_s) : edge_index_s[n][3] = 0
  /\ \E n \in 1 .. Len(edge_index_s) : edge_index_s[n][3] > 0
  /\ PairsOf(adj_lists[1]) # {}

Transpose(S) == { << q[2], q[1] >> : q \in S }

\* C10: from the start of the triad loops on, the four views handed to
\* get_tri_features hold the same (node, neighbour) pairs as when the loops
\* started (keys may have been created, empty); the first loop goes through
\* exactly the positive directed edges, the second through exactly the
\* negative ones; the base views returned hold the edges of before the loops.
C10_TriadFrame ==
  /\ pc \in {"loop1", "loop2", "built", "ready"} =>
       /\ PairsOf(adj1) = { q \in Nodes \X Nodes : PosEdge(q[1], q[2]) }
       /\ PairsOf(adj2) = { q \in Nodes \X Nodes : NegEdge(q[1], q[2]) }
       /\ PairsOf(pos_out_edgelist) = PairsOf(adj1)
       /\ PairsOf(neg_out_edgelist) = PairsOf(adj2)
       /\ PairsOf(pos_in_edgelist) = Transpose(PairsOf(adj1))
       /\ PairsOf(neg_in_edgelist) = Transpose(PairsOf(adj2))
       /\ \A k \in (DOMAIN pos_out_edgelist) \ (DOMAIN adj1) : pos_out_edgelist[k] = {}
       /\ \A k \in (DOMAIN neg_out_edgelist) \ (DOMAIN adj2) : neg_out_edgelist[k] = {}
       /\ visited1 \subseteq PairsOf(adj1)
       /\ visited2 \subseteq PairsOf(adj2)
  /\ pc \in {"loop2", "built", "ready"} => visited1 = PairsOf(adj1)
  /\ Returned =>
       /\ visited2 = PairsOf(adj2)
       /\ PairsOf(adj_lists[2]) = PairsOf(adj1)
       /\ PairsOf(adj_lists[3]) = Transpose(PairsOf(adj1))
       /\ PairsOf(adj_lists[5]) = PairsOf(adj2)
       /\ PairsOf(adj_lists[6]) = Transpose(PairsOf(adj2))

\* both loops have run and get_tri_features has created a key in
\* pos_out_edgelist and one in neg_in_edgelist
C10_Witness ==
  /\ Returned
  /\ visited1 # {}
  /\ visited2 # {}
  /\ DOMAIN pos_out_edgelist # DOMAIN adj1
  /\ \E k \in DOMAIN neg_in_edgelist : neg_in_edgelist[k] = {}

(***************************************************************************)
(* Properties of DIMPA, under SpecDimpa.                                   *)
(***************************************************************************)
\* k propagation steps from x
RECURSIVE ConvPow(_, _, _, _)
ConvPow(x, ei, ew, k) ==
  IF k = 0 THEN x ELSE conv_layer(ConvPow(x, ei, ew, k - 1), ei, ew)
\* sum over k in 0 .. n of w[k] * C^k(x)
RECURSIVE HopSum(_, _, _, _, _)
HopSum(w, x, ei, ew, n) ==
  IF n = 0 THEN Scale(w[1], x)
  ELSE MAdd(HopSum(w, x, ei, ew, n - 1), Scale(w[n + 1], ConvPow(x, ei, ew, n)))
Ones(n) == [k \in 1 .. n |-> << 1, 1 >>]
\* the columns of A followed by the columns of B
SideBySide(A, B) == [n \in 1 .. Len(A) |-> A[n] \o B[n]]

\* C1: DIMPA.forward returns [feat_s | feat_t], feat_s the sum over the hops
\* h in 0..H of w_s[h] * C^h(x_s) along edge_index and feat_t the sum of
\* w_t[h] * Ct^h(x_t) along the edges reversed, with the same weights; with
\* H = 0 that is [w_s[0] * x_s | w_t[0] * x_t]; after construction every
\* per-hop weight is 1.
C1_DimpaForward ==
  /\ dpc = "d_done" =>
       feat = SideBySide(HopSum(w_s, x_s, edge_index, edge_weight, hop),
                         HopSum(w_t, x_t, << edge_index[2], edge_index[1] >>,
                                edge_weight, hop))
  /\ (dpc = "d_done" /\ hop = 0) =>
       feat = SideBySide(Scale(w_s[1], x_s), Scale(w_t[1], x_t))
  /\ (dpc = "d_call" /\ ~ trained) =>
       (w_s = Ones(hop + 1) /\ w_t = Ones(hop + 1))

\* a forward pass of two hops or more with trained weights has returned, on a
\* graph with weights that differ, where one step along the edges and one
\* step along the reversed edges part
C1_Witness ==
  /\ dpc = "d_done"
  /\ hop >= 2
  /\ trained
  /\ \E e \in 1 .. Len(edge_weight) : edge_weight[e] # 1
  /\ conv_layer(x_t, edge_index, edge_weight)
       # conv_layer(x_t, << edge_index[2], edge_index[1] >>, edge_weight)

(***************************************************************************)
(* Properties of DIGRAC, under SpecDigrac.                                 *)
(***************************************************************************)
\* index (from 0) of the first greatest entry of a row of probabilities
\* exp(e) / sum: of two entries of a row the greater has the greater e
RECURSIVE ProbArgMaxUpTo(_, _)
ProbArgMaxUpTo(row, k) ==
  IF k = 1 THEN 1
  ELSE LET best == ProbArgMaxUpTo(row, k - 1)
       IN IF RLess(row[best].e, row[k].e) THEN k ELSE best
ProbArgMax(row) == ProbArgMaxUpTo(row, Len(row)) - 1

C7_Shapes ==
  /\ dpc # "g_error"
  /\ dpc = "d_done" =>
       /\ Shape(x_s) = << NumNodes, hidden >>
       /\ Shape(x_t) = << NumNodes, hidden >>
       /\ Shape(feat) = << NumNodes, 2 * NCols(x_s) >>
  /\ dpc = "g_done" =>
       /\ Len(z) = NumNodes
       /\ \A n \in 1 .. NumNodes : Len(z[n].v) = 2 * hidden
       /\ Shape(output) = << NumNodes, nclass >>
       /\ Shape(prob) = << NumNodes, nclass >>
       /\ Len(predictions_cluster) = NumNodes
       /\ \A n \in 1 .. NumNodes : predictions_cluster[n] \in 0 .. (nclass - 1)

\* a forward pass in training mode, with two hops and hidden size two, has
\* returned and its clusters are not all the first one
C7_Witness ==
  /\ dpc = "g_done"
  /\ training
  /\ hop >= 2
  /\ hidden >= 2
  /\ \E n \in 1 .. NumNodes : predictions_cluster[n] = nclass - 1

====
